---- MODULE Spec2Model ----
(***************************************************************************)
(* Model of runner/prepare_hdp.py: the EC2 cluster launcher.               *)
(*                                                                         *)
(*   SpecSsh        the retry loop of ssh()                                *)
(*   SpecPartition  get_partition() applied over the zone loop             *)
(*   SpecInventory  get_existing_cluster() over provider states            *)
(*   SpecLaunch     main() entering launch_cluster(), run after run,       *)
(*                  against one provider                                   *)
(***************************************************************************)
EXTENDS Integers, Sequences, FiniteSets, TLC

VARIABLES
  \* ---- ssh(host, opts, command) ----
  sshPlan,      \* the transport: sshPlan[k] = TRUE iff the k-th check_call succeeds
  sshPc,        \* "idle" | "call" | "returned" | "raised"
  tries,        \* the local variable tries of ssh()
  attempts,     \* number of subprocess.check_call invocations made so far
  \* ---- get_partition over the zone loop ----
  pTotal,       \* total
  pN,           \* num_partitions
  pI,           \* current_partitions (loop index i)
  pShares,      \* the shares computed so far, in zone order
  \* ---- the provider (EC2) ----
  reservations, \* conn.get_all_instances(): sequence of [groups, instances]
  sgroups,      \* conn.get_all_security_groups(): sequence of [name, rules]
  \* ---- get_existing_cluster called on its own ----
  invPc,        \* "idle" | "call" | "returned" | "exit"
  invDie,       \* the argument die_on_error
  invFound,     \* <<master_nodes, slave_nodes>> as built by the scan
  \* ---- main() / launch_cluster ----
  pc,           \* position of the run
  opts,         \* the parsed options
  master_group, \* local SecurityGroup object [idx, name, rules]
  slave_group,  \* local SecurityGroup object [idx, name, rules]
  active_nodes, \* what get_existing_cluster returned to launch_cluster
  zones,        \* get_zones(conn, opts)
  zi,           \* the loop counter i of the slave loop
  slave_nodes,  \* instances of the slave reservations created by this run
  master_nodes, \* instances of the master reservation created by this run
  result,       \* the tuple launch_cluster returned
  createCalls,  \* image.run calls issued by this run
  groupCalls,   \* create_security_group / authorize calls issued by this run
  runs,         \* number of runs of the program started so far
  ensured,      \* some run has completed the security group set-up
  start,        \* the provider and options as they were when this run started
  orphans,      \* slave instances created by runs that then died on a provider error
  \* ---- wait_for_cluster / wait_for_instances ----
  wProv,        \* the provider's state of each node, masters first
  wLocal,       \* i.state of each local instance object
  wMasters,     \* len(master_nodes): nodes 1..wMasters are the masters
  wPc,          \* "idle" | "presleep" | "update" | "sleep" | "settle" | "done"
  wList,        \* the list wait_for_instances is working on: "masters" | "slaves"
  wIdx,         \* instances updated so far in the current round
  wSlept,       \* this call has been through time.sleep(5) of the polling loop
  \* ---- setup_cluster ----
  sResumed,     \* the node lists came from get_existing_cluster (--resume)
  sMasters,     \* len(master_nodes): nodes 1..sMasters are the masters
  sSlaves,      \* len(slave_nodes): nodes sMasters+1..sMasters+sSlaves
  sPc,          \* the statement of setup_cluster that runs next
  sNode,        \* the node the current loop is at
  sCmd,         \* the remote call of the current loop body that runs next
  sTries,       \* tries of the ssh() call in progress
  sUser,        \* opts.user
  assigned,     \* node.assigned_name of each node, "" while the attribute is not set
  bootRuns,     \* how many times the bootstrap command line was started on each node
  sLog,         \* the remote calls that have finished, in order
  hostsFile,    \* the node lines of the temporary hosts file
  pushed        \* the hosts file copied to each node, <<>> before the copy

sshVars == <<sshPlan, sshPc, tries, attempts>>
partVars == <<pTotal, pN, pI, pShares>>
invVars == <<invPc, invDie, invFound>>
provVars == <<reservations, sgroups>>
launchVars == <<pc, opts, master_group, slave_group, active_nodes, zones, zi,
                slave_nodes, master_nodes, result, createCalls, groupCalls,
                runs, ensured, start, orphans>>
waitVars == <<wProv, wLocal, wMasters, wPc, wList, wIdx, wSlept>>
setupVars == <<sResumed, sMasters, sSlaves, sPc, sNode, sCmd, sTries, sUser,
               assigned, bootRuns, sLog, hostsFile, pushed>>
vars == <<sshVars, partVars, provVars, invVars, launchVars, waitVars, setupVars>>

\* ------------------------------------------------------------------ bounds
PlanLen == 6     \* length of the explicit transport schedule
MaxTotal == 7    \* largest total handed to get_partition
MaxParts == 4    \* largest number of partitions (zones)

\* ------------------------------------------------------------------ helpers
RECURSIVE SumSeq(_)
SumSeq(s) == IF s = <<>> THEN 0 ELSE Head(s) + SumSeq(Tail(s))

SeqMax(s) == CHOOSE x \in {s[k] : k \in DOMAIN s} : \A y \in {s[k] : k \in DOMAIN s} : y <= x
SeqMin(s) == CHOOSE x \in {s[k] : k \in DOMAIN s} : \A y \in {s[k] : k \in DOMAIN s} : x <= y

\* ------------------------------------------------------------------ idle parts
SshIdle == sshPlan = <<>> /\ sshPc = "idle" /\ tries = 0 /\ attempts = 0
PartIdle == pTotal = 0 /\ pN = 0 /\ pI = 0 /\ pShares = <<>>
InvIdle == invPc = "idle" /\ invDie = FALSE /\ invFound = <<<<>>, <<>>>>
NoProvider == reservations = <<>> /\ sgroups = <<>>
NoGroup == [idx |-> 0, name |-> "", rules |-> <<>>]
NoOpts == [resume |-> FALSE, slaves |-> 0, zone |-> "", instance_type |-> "",
           master_instance_type |-> ""]
NoStart == [reservations |-> <<>>, sgroups |-> <<>>, opts |-> NoOpts, ensured |-> FALSE,
            orphans |-> {}]
LaunchIdle ==
  /\ pc = "idle" /\ opts = NoOpts
  /\ master_group = NoGroup /\ slave_group = NoGroup
  /\ active_nodes = <<<<>>, <<>>>> /\ zones = <<>> /\ zi = 0
  /\ slave_nodes = <<>> /\ master_nodes = <<>> /\ result = <<<<>>, <<>>>>
  /\ createCalls = <<>> /\ groupCalls = <<>>
  /\ runs = 0 /\ ensured = FALSE /\ start = NoStart /\ orphans = {}

WaitIdle ==
  /\ wProv = <<>> /\ wLocal = <<>> /\ wMasters = 0
  /\ wPc = "idle" /\ wList = "masters" /\ wIdx = 0 /\ wSlept = FALSE
SetupIdle ==
  /\ sResumed = FALSE /\ sMasters = 0 /\ sSlaves = 0
  /\ sPc = "idle" /\ sNode = 0 /\ sCmd = 0 /\ sTries = 0 /\ sUser = ""
  /\ assigned = <<>> /\ bootRuns = <<>> /\ sLog = <<>>
  /\ hostsFile = <<>> /\ pushed = <<>>

\* ================================================================== ssh()
\* The retry threshold of "if (tries > 2): raise e".
RetryLimit == 2

\* Outcome of the k-th check_call: beyond the explicit schedule the transport
\* keeps failing.
TransportOk(k) == IF k \in DOMAIN sshPlan THEN sshPlan[k] ELSE FALSE

\* except CalledProcessError: if (tries > 2): raise e
GivesUp(t) == t > RetryLimit

\* try: return subprocess.check_call(cmd, shell=True)      (success)
SshCallOk ==
  /\ sshPc = "call"
  /\ TransportOk(attempts + 1)
  /\ attempts' = attempts + 1
  /\ sshPc' = "returned"
  /\ UNCHANGED <<sshPlan, tries>>
  /\ UNCHANGED <<partVars, provVars, invVars, launchVars, waitVars, setupVars>>

\* check_call raised and tries > 2: the exception is re-raised
SshCallFailRaise ==
  /\ sshPc = "call"
  /\ ~TransportOk(attempts + 1)
  /\ GivesUp(tries)
  /\ attempts' = attempts + 1
  /\ sshPc' = "raised"
  /\ UNCHANGED <<sshPlan, tries>>
  /\ UNCHANGED <<partVars, provVars, invVars, launchVars, waitVars, setupVars>>

\* check_call raised and tries <= 2: sleep 30 seconds, tries = tries + 1, loop
SshCallFailRetry ==
  /\ sshPc = "call"
  /\ ~TransportOk(attempts + 1)
  /\ ~GivesUp(tries)
  /\ attempts' = attempts + 1
  /\ tries' = tries + 1
  /\ sshPc' = "call"
  /\ UNCHANGED sshPlan
  /\ UNCHANGED <<partVars, provVars, invVars, launchVars, waitVars, setupVars>>

InitSsh ==
  /\ sshPlan \in [1..PlanLen -> BOOLEAN]
  /\ sshPc = "call"
  /\ tries = 0
  /\ attempts = 0
  /\ PartIdle /\ InvIdle /\ NoProvider /\ LaunchIdle /\ WaitIdle /\ SetupIdle

NextSsh == SshCallOk \/ SshCallFailRaise \/ SshCallFailRetry

SpecSsh == InitSsh /\ [][NextSsh]_vars

\* ================================================================== get_partition
get_partition_ge(total, num_partitions, current_partitions) ==
  (total \div num_partitions) +
    (IF (total % num_partitions) - current_partitions >= 0 THEN 1 ELSE 0)

\* num_slaves_this_zone = total / num_partitions
\* if (total % num_partitions) - current_partitions > 0: num_slaves_this_zone += 1
get_partition(total, num_partitions, current_partitions) ==
  (total \div num_partitions) +
    (IF (total % num_partitions) - current_partitions > 0 THEN 1 ELSE 0)

\* One iteration of "for zone in zones: ... get_partition(opts.slaves, num_zones, i); i += 1"
PartitionStep ==
  /\ pN >= 1
  /\ pI < pN
  /\ pShares' = Append(pShares, get_partition(pTotal, pN, pI))
  /\ pI' = pI + 1
  /\ UNCHANGED <<pTotal, pN>>
  /\ UNCHANGED <<sshVars, provVars, invVars, launchVars, waitVars, setupVars>>

InitPartition ==
  /\ pTotal \in 0..MaxTotal
  /\ pN \in 1..MaxParts
  /\ pI = 0
  /\ pShares = <<>>
  /\ SshIdle /\ InvIdle /\ NoProvider /\ LaunchIdle /\ WaitIdle /\ SetupIdle

NextPartition == PartitionStep

SpecPartition == InitPartition /\ [][NextPartition]_vars

\* ================================================================== the provider
\* The name given on the command line, and the two group names launch_cluster
\* derives from it.
cluster_name == "c"
MasterGroupName(name) == name \o "-master"
SlaveGroupName(name) == name \o "-slaves"

\* Lifecycle states of an EC2 instance.
InstanceStates ==
  {"pending", "running", "shutting-down", "terminated", "stopping", "stopped"}

\* A node is the j-th instance of the r-th reservation.
NodeState(rs, node) == rs[node[1]].instances[node[2]]
NodesOf(rs, r) == [j \in 1..Len(rs[r].instances) |-> <<r, j>>]

\* ================================================================== is_active
is_active_without_stopped(state) == state \in {"pending", "running", "stopping"}

\* return (instance.state in ['pending', 'running', 'stopping', 'stopped'])
is_active(state) == state \in {"pending", "running", "stopping", "stopped"}

\* ================================================================== get_existing_cluster
OnlyGroup_member(group_names, g) == \E k \in DOMAIN group_names : group_names[k] = g

\* group_names == [cluster_name + "-master"]   (list equality)
OnlyGroup(group_names, g) == group_names = <<g>>

\* for res in reservations: ... master_nodes += res.instances / slave_nodes += ...
RECURSIVE ScanReservations(_, _, _, _, _)
ScanReservations(rs, name, r, m_nodes, s_nodes) ==
  IF r > Len(rs) THEN <<m_nodes, s_nodes>>
  ELSE
    LET res == rs[r]
        active == SelectSeq(res.instances, is_active)
        group_names == res.groups
    IN IF Len(active) > 0
       THEN IF OnlyGroup(group_names, MasterGroupName(name))
            THEN ScanReservations(rs, name, r + 1, m_nodes \o NodesOf(rs, r), s_nodes)
            ELSE IF OnlyGroup(group_names, SlaveGroupName(name))
            THEN ScanReservations(rs, name, r + 1, m_nodes, s_nodes \o NodesOf(rs, r))
            ELSE ScanReservations(rs, name, r + 1, m_nodes, s_nodes)
       ELSE ScanReservations(rs, name, r + 1, m_nodes, s_nodes)

FoundNodes(rs, name) == ScanReservations(rs, name, 1, <<>>, <<>>)

ReturnsFound_either(m_nodes, s_nodes, die_on_error) ==
  (m_nodes /= <<>> \/ s_nodes /= <<>>) \/ ~die_on_error

\* if (master_nodes != [] and slave_nodes != []) or not die_on_error: return ...
\* else: sys.exit(1)
ReturnsFound(m_nodes, s_nodes, die_on_error) ==
  (m_nodes /= <<>> /\ s_nodes /= <<>>) \/ ~die_on_error

\* One call get_existing_cluster(conn, opts, cluster_name, die_on_error)
GetExistingCluster ==
  /\ invPc = "call"
  /\ \E die_on_error \in BOOLEAN :
       LET found == FoundNodes(reservations, cluster_name)
       IN /\ invDie' = die_on_error
          /\ invFound' = found
          /\ invPc' = IF ReturnsFound(found[1], found[2], die_on_error)
                      THEN "returned" ELSE "exit"
  /\ UNCHANGED <<sshVars, partVars, provVars, launchVars, waitVars, setupVars>>

\* Provider states enumerated for the inventory: group memberships and instance
\* lists of one reservation.
InvGroupLists ==
  { <<>>,
    <<MasterGroupName(cluster_name)>>,
    <<SlaveGroupName(cluster_name)>>,
    <<MasterGroupName(cluster_name), SlaveGroupName(cluster_name)>>,
    <<SlaveGroupName(cluster_name), MasterGroupName(cluster_name)>>,
    <<MasterGroupName(cluster_name), "default">>,
    <<"default", SlaveGroupName(cluster_name)>>,
    <<MasterGroupName("d")>> }

InvInstanceLists ==
  { <<st>> : st \in InstanceStates } \cup
  { <<"running", "terminated">>, <<"terminated", "stopped">> }

InvReservation == [groups : InvGroupLists, instances : InvInstanceLists]

MaxRes == 2     \* largest number of reservations the provider starts with

InitInventory ==
  /\ reservations \in UNION { [1..n -> InvReservation] : n \in 0..MaxRes }
  /\ invPc = "call"
  /\ invDie = FALSE
  /\ invFound = <<<<>>, <<>>>>
  /\ sgroups = <<>>
  /\ SshIdle /\ PartIdle /\ LaunchIdle /\ WaitIdle /\ SetupIdle

NextInventory == GetExistingCluster

SpecInventory == InitInventory /\ [][NextInventory]_vars

\* ================================================================== security groups
\* The three rules launch_cluster authorizes on a group, in call order:
\* src_group = master_group, src_group = slave_group, tcp 0-65535 from 0.0.0.0/0.
GroupRules(mg, sg) == <<"src:" \o mg.name, "src:" \o sg.name, "tcp:0-65535:0.0.0.0/0">>

SetMin(S) == CHOOSE x \in S : \A y \in S : x <= y

get_or_make_group_always_make(sg, name) ==
  [sgroups |-> Append(sg, [name |-> name, rules |-> <<>>]),
   group |-> [idx |-> Len(sg) + 1, name |-> name, rules |-> <<>>],
   created |-> TRUE]

\* groups = conn.get_all_security_groups(); group = [g for g in groups if g.name == name]
\* if len(group) > 0: return group[0]  else: return conn.create_security_group(name, ...)
get_or_make_group(sg, name) ==
  LET group == {k \in DOMAIN sg : sg[k].name = name}
  IN IF group /= {}
     THEN [sgroups |-> sg,
           group |-> [idx |-> SetMin(group), name |-> name, rules |-> sg[SetMin(group)].rules],
           created |-> FALSE]
     ELSE [sgroups |-> Append(sg, [name |-> name, rules |-> <<>>]),
           group |-> [idx |-> Len(sg) + 1, name |-> name, rules |-> <<>>],
           created |-> TRUE]

\* group.authorize(...) for each rule of rs in turn; the provider rejects a rule
\* the group already holds (InvalidPermission.Duplicate), which raises.
RECURSIVE AuthorizeAll(_, _, _, _)
AuthorizeAll(sg, group, rs, calls) ==
  IF rs = <<>> THEN [sgroups |-> sg, ok |-> TRUE, calls |-> calls]
  ELSE LET rule == Head(rs)
           dup == \E k \in DOMAIN sg[group.idx].rules : sg[group.idx].rules[k] = rule
           call == [call |-> "authorize", group |-> group.name, rule |-> rule, dup |-> dup]
       IN IF dup
          THEN [sgroups |-> sg, ok |-> FALSE, calls |-> Append(calls, call)]
          ELSE AuthorizeAll([sg EXCEPT ![group.idx].rules = Append(@, rule)],
                            group, Tail(rs), Append(calls, call))

\* if master_group.rules == []: # Group was just now created
JustCreated(group) == group.rules = <<>>

\* ================================================================== launch_cluster
\* conn.get_all_zones() of the region
ZoneUniverse == <<"a", "b", "c", "d">>
NumZones == 2
AllZones == SubSeq(ZoneUniverse, 1, NumZones)

MaxSlaves == 3   \* largest --slaves
MaxRuns == 2     \* number of runs of the program against the same provider

LaunchDone == pc \in {"returned", "conflict", "no_image", "slave_run_error",
                      "master_run_error", "authorize_error"}

\* main(): parse_args, "if opts.zone == '': opts.zone = random.choice(...).name",
\* then launch_cluster is entered: opts.zone is 'all' or the name of a zone,
\* given with -z or picked at random by main().
StartLaunch ==
  /\ pc = "idle" \/ LaunchDone
  /\ runs < MaxRuns
  /\ \E resume \in BOOLEAN, slaves \in 0..MaxSlaves,
        zone \in {"all"} \cup {AllZones[k] : k \in DOMAIN AllZones},
        mtype \in {"", "m1.xlarge"} :
         opts' = [resume |-> resume, slaves |-> slaves, zone |-> zone,
                  instance_type |-> "m1.large",
                  master_instance_type |-> mtype]
  /\ runs' = runs + 1
  /\ start' = [reservations |-> reservations, sgroups |-> sgroups,
               opts |-> opts', ensured |-> ensured, orphans |-> orphans]
  /\ pc' = "master_group"
  /\ master_group' = NoGroup /\ slave_group' = NoGroup
  /\ active_nodes' = <<<<>>, <<>>>> /\ zones' = <<>> /\ zi' = 0
  /\ slave_nodes' = <<>> /\ master_nodes' = <<>> /\ result' = <<<<>>, <<>>>>
  /\ createCalls' = <<>> /\ groupCalls' = <<>>
  /\ UNCHANGED <<ensured, orphans, provVars, sshVars, partVars, invVars, waitVars, setupVars>>

CreateCallsOf(made) ==
  IF made.created THEN <<[call |-> "create", group |-> made.group.name,
                          rule |-> "", dup |-> FALSE]>>
  ELSE <<>>

\* master_group = get_or_make_group(conn, cluster_name + "-master")
GetMasterGroup ==
  /\ pc = "master_group"
  /\ LET made == get_or_make_group(sgroups, MasterGroupName(cluster_name))
     IN /\ sgroups' = made.sgroups
        /\ master_group' = made.group
        /\ groupCalls' = groupCalls \o CreateCallsOf(made)
  /\ pc' = "slave_group"
  /\ UNCHANGED <<reservations, opts, slave_group, active_nodes, zones, zi, slave_nodes,
                 master_nodes, result, createCalls, runs, ensured, start, orphans>>
  /\ UNCHANGED <<sshVars, partVars, invVars, waitVars, setupVars>>

\* slave_group = get_or_make_group(conn, cluster_name + "-slaves")
GetSlaveGroup ==
  /\ pc = "slave_group"
  /\ LET made == get_or_make_group(sgroups, SlaveGroupName(cluster_name))
     IN /\ sgroups' = made.sgroups
        /\ slave_group' = made.group
        /\ groupCalls' = groupCalls \o CreateCallsOf(made)
  /\ pc' = "master_rules"
  /\ UNCHANGED <<reservations, opts, master_group, active_nodes, zones, zi, slave_nodes,
                 master_nodes, result, createCalls, runs, ensured, start, orphans>>
  /\ UNCHANGED <<sshVars, partVars, invVars, waitVars, setupVars>>

\* if master_group.rules == []: the three master_group.authorize calls
AuthorizeMaster ==
  /\ pc = "master_rules"
  /\ IF JustCreated(master_group)
     THEN LET done == AuthorizeAll(sgroups, master_group,
                                   GroupRules(master_group, slave_group), <<>>)
          IN /\ sgroups' = done.sgroups
             /\ master_group' = [master_group EXCEPT !.rules = done.sgroups[master_group.idx].rules]
             /\ groupCalls' = groupCalls \o done.calls
             /\ pc' = IF done.ok THEN "slave_rules" ELSE "authorize_error"
     ELSE /\ pc' = "slave_rules"
          /\ UNCHANGED <<sgroups, master_group, groupCalls>>
  /\ UNCHANGED <<reservations, opts, slave_group, active_nodes, zones, zi, slave_nodes,
                 master_nodes, result, createCalls, runs, ensured, start, orphans>>
  /\ UNCHANGED <<sshVars, partVars, invVars, waitVars, setupVars>>

\* if slave_group.rules == []: the three slave_group.authorize calls
AuthorizeSlaves ==
  /\ pc = "slave_rules"
  /\ IF JustCreated(slave_group)
     THEN LET done == AuthorizeAll(sgroups, slave_group,
                                   GroupRules(master_group, slave_group), <<>>)
          IN /\ sgroups' = done.sgroups
             /\ slave_group' = [slave_group EXCEPT !.rules = done.sgroups[slave_group.idx].rules]
             /\ groupCalls' = groupCalls \o done.calls
             /\ pc' = IF done.ok THEN "find" ELSE "authorize_error"
             /\ ensured' = (ensured \/ done.ok)
     ELSE /\ pc' = "find"
          /\ ensured' = TRUE
          /\ UNCHANGED <<sgroups, slave_group, groupCalls>>
  /\ UNCHANGED <<reservations, opts, master_group, active_nodes, zones, zi, slave_nodes,
                 master_nodes, result, createCalls, runs, start, orphans>>
  /\ UNCHANGED <<sshVars, partVars, invVars, waitVars, setupVars>>

ResumeRequested_never(o) == FALSE

\* if opts.resume:
ResumeRequested(o) == o.resume

AnyActive_master_only(nodes) == nodes[1] /= <<>>

\* if any(active_nodes):
AnyActive(nodes) == nodes[1] /= <<>> \/ nodes[2] /= <<>>

\* if opts.resume: return get_existing_cluster(conn, opts, cluster_name, die_on_error=False)
FindResume ==
  /\ pc = "find"
  /\ ResumeRequested(opts)
  /\ LET nodes == FoundNodes(reservations, cluster_name)
     IN /\ ReturnsFound(nodes[1], nodes[2], FALSE)
        /\ active_nodes' = nodes
        /\ result' = nodes
  /\ pc' = "returned"
  /\ UNCHANGED <<provVars, opts, master_group, slave_group, zones, zi, slave_nodes,
                 master_nodes, createCalls, groupCalls, runs, ensured, start, orphans>>
  /\ UNCHANGED <<sshVars, partVars, invVars, waitVars, setupVars>>

\* else: active_nodes = get_existing_cluster(..., die_on_error=False)
\*       if any(active_nodes): ... sys.exit(1)
FindFresh ==
  /\ pc = "find"
  /\ ~ResumeRequested(opts)
  /\ LET nodes == FoundNodes(reservations, cluster_name)
     IN /\ ReturnsFound(nodes[1], nodes[2], FALSE)
        /\ active_nodes' = nodes
        /\ pc' = IF AnyActive(nodes) THEN "conflict" ELSE "get_image"
  /\ UNCHANGED <<provVars, opts, master_group, slave_group, zones, zi, slave_nodes,
                 master_nodes, result, createCalls, groupCalls, runs, ensured, start, orphans>>
  /\ UNCHANGED <<sshVars, partVars, invVars, waitVars, setupVars>>

\* if opts.zone == 'all': zones = [z.name for z in conn.get_all_zones()]
\* else: zones = [opts.zone]
get_zones(all, o) == IF o.zone = "all" THEN all ELSE <<o.zone>>

\* image = conn.get_all_images(image_ids=[opts.ami])[0], or "Could not find AMI";
\* then zones = get_zones(conn, opts); i = 0; slave_nodes = []
GetImage ==
  /\ pc = "get_image"
  /\ \E image_found \in BOOLEAN :
       IF image_found
       THEN /\ pc' = "slaves"
            /\ zones' = get_zones(AllZones, opts)
            /\ zi' = 0
            /\ slave_nodes' = <<>>
       ELSE /\ pc' = "no_image"
            /\ UNCHANGED <<zones, zi, slave_nodes>>
  /\ UNCHANGED <<provVars, opts, master_group, slave_group, active_nodes,
                 master_nodes, result, createCalls, groupCalls, runs, ensured, start, orphans>>
  /\ UNCHANGED <<sshVars, partVars, invVars, waitVars, setupVars>>

SlaveCounts_min_one(n) == [min_count |-> 1, max_count |-> n]

\* min_count = num_slaves_this_zone, max_count = num_slaves_this_zone
SlaveCounts(n) == [min_count |-> n, max_count |-> n]

\* The reservation image.run returns: cnt new instances, all pending, in the
\* given security groups.
NewReservation(group, cnt) ==
  [groups |-> <<group.name>>, instances |-> [j \in 1..cnt |-> "pending"]]

\* One iteration of "for zone in zones:" whose image.run (if any) succeeds.
LaunchSlaves ==
  /\ pc = "slaves"
  /\ zi < Len(zones)
  /\ LET zone == zones[zi + 1]
         num_slaves_this_zone == get_partition(opts.slaves, Len(zones), zi)
         counts == SlaveCounts(num_slaves_this_zone)
     IN IF num_slaves_this_zone > 0
        THEN \E cnt \in counts.min_count..counts.max_count :
               /\ reservations' = Append(reservations, NewReservation(slave_group, cnt))
               /\ slave_nodes' = slave_nodes \o NodesOf(reservations', Len(reservations'))
               /\ createCalls' = Append(createCalls,
                    [group |-> slave_group.name, instance_type |-> opts.instance_type,
                     placement |-> zone, min_count |-> counts.min_count,
                     max_count |-> counts.max_count])
        ELSE UNCHANGED <<reservations, slave_nodes, createCalls>>
  /\ zi' = zi + 1
  /\ UNCHANGED <<sgroups, pc, opts, master_group, slave_group, active_nodes, zones,
                 master_nodes, result, groupCalls, runs, ensured, start, orphans>>
  /\ UNCHANGED <<sshVars, partVars, invVars, waitVars, setupVars>>

\* The image.run of a slave batch raises (provider error): the run dies.
LaunchSlavesFail ==
  /\ pc = "slaves"
  /\ zi < Len(zones)
  /\ LET zone == zones[zi + 1]
         num_slaves_this_zone == get_partition(opts.slaves, Len(zones), zi)
         counts == SlaveCounts(num_slaves_this_zone)
     IN /\ num_slaves_this_zone > 0
        /\ createCalls' = Append(createCalls,
              [group |-> slave_group.name, instance_type |-> opts.instance_type,
               placement |-> zone, min_count |-> counts.min_count,
               max_count |-> counts.max_count])
  /\ pc' = "slave_run_error"
  /\ UNCHANGED <<provVars, opts, master_group, slave_group, active_nodes, zones, zi,
                 slave_nodes, master_nodes, result, groupCalls, runs, ensured, start>>
  /\ orphans' = orphans \cup {slave_nodes[k] : k \in DOMAIN slave_nodes}
  /\ UNCHANGED <<sshVars, partVars, invVars, waitVars, setupVars>>

MasterType_configured_only(o) == o.master_instance_type

\* master_type = opts.master_instance_type; if master_type == "": master_type = opts.instance_type
MasterType(o) == IF o.master_instance_type = "" THEN o.instance_type
                 ELSE o.master_instance_type

\* if opts.zone == 'all': opts.zone = random.choice(conn.get_all_zones()).name
MasterZones(all, o) == IF o.zone = "all" THEN {all[k] : k \in DOMAIN all} ELSE {o.zone}

\* master_res = image.run(..., min_count = 1, max_count = 1); return (master_nodes, slave_nodes)
LaunchMaster ==
  /\ pc = "slaves"
  /\ zi = Len(zones)
  /\ \E z \in MasterZones(AllZones, opts) :
       /\ opts' = [opts EXCEPT !.zone = z]
       /\ createCalls' = Append(createCalls,
            [group |-> master_group.name, instance_type |-> MasterType(opts),
             placement |-> z, min_count |-> 1, max_count |-> 1])
  /\ reservations' = Append(reservations, NewReservation(master_group, 1))
  /\ master_nodes' = NodesOf(reservations', Len(reservations'))
  /\ result' = <<master_nodes', slave_nodes>>
  /\ pc' = "returned"
  /\ UNCHANGED <<sgroups, master_group, slave_group, active_nodes, zones, zi,
                 slave_nodes, groupCalls, runs, ensured, start, orphans>>
  /\ UNCHANGED <<sshVars, partVars, invVars, waitVars, setupVars>>

LaunchMasterFail_rollback ==
  /\ pc = "slaves"
  /\ zi = Len(zones)
  /\ \E z \in MasterZones(AllZones, opts) :
       /\ opts' = [opts EXCEPT !.zone = z]
       /\ createCalls' = Append(createCalls,
            [group |-> master_group.name, instance_type |-> MasterType(opts),
             placement |-> z, min_count |-> 1, max_count |-> 1])
  /\ pc' = "master_run_error"
  /\ reservations' =
       [r \in DOMAIN reservations |->
          IF r > Len(start.reservations)
          THEN [reservations[r] EXCEPT
                  !.instances = [j \in DOMAIN reservations[r].instances |-> "shutting-down"]]
          ELSE reservations[r]]
  /\ orphans' = orphans \cup {slave_nodes[k] : k \in DOMAIN slave_nodes}
  /\ UNCHANGED <<sgroups, master_group, slave_group, active_nodes, zones, zi,
                 slave_nodes, master_nodes, result, groupCalls, runs, ensured, start>>
  /\ UNCHANGED <<sshVars, partVars, invVars, waitVars, setupVars>>

\* The image.run of the master raises (provider error): the run dies, the slave
\* batches stay.
LaunchMasterFail ==
  /\ pc = "slaves"
  /\ zi = Len(zones)
  /\ \E z \in MasterZones(AllZones, opts) :
       /\ opts' = [opts EXCEPT !.zone = z]
       /\ createCalls' = Append(createCalls,
            [group |-> master_group.name, instance_type |-> MasterType(opts),
             placement |-> z, min_count |-> 1, max_count |-> 1])
  /\ pc' = "master_run_error"
  /\ UNCHANGED <<provVars, master_group, slave_group, active_nodes, zones, zi,
                 slave_nodes, master_nodes, result, groupCalls, runs, ensured, start>>
  /\ orphans' = orphans \cup {slave_nodes[k] : k \in DOMAIN slave_nodes}
  /\ UNCHANGED <<sshVars, partVars, invVars, waitVars, setupVars>>

\* Provider states a run can start from.
DefaultGroup == [name |-> "default", rules |-> <<"tcp:22:0.0.0.0/0">>]
FullRules == <<"src:c-master", "src:c-slaves", "tcp:0-65535:0.0.0.0/0">>
InitGroupRules == {<<>>, <<"src:c-master">>, FullRules}

InitGroups ==
  { <<DefaultGroup>> } \cup
  { <<DefaultGroup, [name |-> "c-master", rules |-> mr]>> : mr \in InitGroupRules } \cup
  { <<DefaultGroup, [name |-> "c-master", rules |-> mr], [name |-> "c-slaves", rules |-> sr]>> :
      mr \in InitGroupRules, sr \in InitGroupRules }

InitReservationLists ==
  { <<>>,
    <<[groups |-> <<"c-master">>, instances |-> <<"running">>]>>,
    <<[groups |-> <<"c-slaves">>, instances |-> <<"pending">>]>>,
    <<[groups |-> <<"c-slaves">>, instances |-> <<"stopped">>]>>,
    <<[groups |-> <<"c-master">>, instances |-> <<"terminated">>]>>,
    <<[groups |-> <<"c-master">>, instances |-> <<"shutting-down">>]>>,
    <<[groups |-> <<"c-slaves">>, instances |-> <<"running", "terminated">>]>>,
    <<[groups |-> <<"c-master", "default">>, instances |-> <<"running">>]>>,
    <<[groups |-> <<"default">>, instances |-> <<"running">>]>>,
    <<[groups |-> <<"c-master">>, instances |-> <<"stopped">>],
      [groups |-> <<"c-slaves">>, instances |-> <<"stopped", "stopped">>]>>,
    <<[groups |-> <<"c-master">>, instances |-> <<"terminated">>],
      [groups |-> <<"c-slaves">>, instances |-> <<"terminated", "terminated">>]>> }

\* A reservation's groups exist (the provider refuses to delete a group in use).
GroupsExist(rs, sg) ==
  \A r \in DOMAIN rs : \A g \in DOMAIN rs[r].groups :
    \E k \in DOMAIN sg : sg[k].name = rs[r].groups[g]

InitLaunch ==
  /\ sgroups \in InitGroups
  /\ reservations \in InitReservationLists
  /\ GroupsExist(reservations, sgroups)
  /\ LaunchIdle
  /\ SshIdle /\ PartIdle /\ InvIdle /\ WaitIdle /\ SetupIdle

NextLaunch ==
  \/ StartLaunch
  \/ GetMasterGroup
  \/ GetSlaveGroup
  \/ AuthorizeMaster
  \/ AuthorizeSlaves
  \/ FindResume
  \/ FindFresh
  \/ GetImage
  \/ LaunchSlaves
  \/ LaunchSlavesFail
  \/ LaunchMaster
  \/ LaunchMasterFail

SpecLaunch == InitLaunch /\ [][NextLaunch]_vars

\* ================================================================== wait_for_cluster
\* Lifecycle states and the moves the provider (or an operator) makes.
WaitStates == {"pending", "running", "stopped", "terminated"}
ProviderMoves ==
  { <<"pending", "running">>, <<"pending", "terminated">>, <<"running", "stopped">>,
    <<"running", "terminated">>, <<"stopped", "pending">>, <<"stopped", "terminated">> }

MaxWaitNodes == 2   \* largest number of nodes handed to wait_for_cluster

\* The indices of the list wait_for_instances was called with.
WaitList(list) == IF list = "masters" THEN 1..wMasters ELSE (wMasters + 1)..Len(wProv)
\* The k-th instance of that list.
WaitNode(list, k) == IF list = "masters" THEN k ELSE wMasters + k

StillPending_first_only(states, list) ==
  list /= {} /\ states[SetMin(list)] = "pending"

StillPending_never(states, list) == FALSE

\* if len([i for i in instances if i.state == 'pending']) > 0:
StillPending(states, list) == \E k \in list : states[k] = "pending"

\* print "Waiting for instances to start up..."; time.sleep(5);
\* wait_for_instances(conn, master_nodes) is entered
WaitEnter ==
  /\ wPc = "presleep"
  /\ wPc' = "update" /\ wList' = "masters" /\ wIdx' = 0
  /\ UNCHANGED <<wProv, wLocal, wMasters, wSlept>>
  /\ UNCHANGED <<sshVars, partVars, provVars, invVars, launchVars, setupVars>>

\* for i in instances: i.update()      (one describe call)
WaitUpdate ==
  /\ wPc = "update"
  /\ wIdx < Cardinality(WaitList(wList))
  /\ wLocal' = [wLocal EXCEPT ![WaitNode(wList, wIdx + 1)] = wProv[WaitNode(wList, wIdx + 1)]]
  /\ wIdx' = wIdx + 1
  /\ UNCHANGED <<wProv, wMasters, wPc, wList, wSlept>>
  /\ UNCHANGED <<sshVars, partVars, provVars, invVars, launchVars, setupVars>>

\* the for loop is over and some instance is pending: time.sleep(5) is entered
WaitPending ==
  /\ wPc = "update"
  /\ wIdx = Cardinality(WaitList(wList))
  /\ StillPending(wLocal, WaitList(wList))
  /\ wPc' = "sleep"
  /\ UNCHANGED <<wProv, wLocal, wMasters, wList, wIdx, wSlept>>
  /\ UNCHANGED <<sshVars, partVars, provVars, invVars, launchVars, setupVars>>

\* time.sleep(5) is over: the while loop starts its next round
WaitSleep ==
  /\ wPc = "sleep"
  /\ wPc' = "update" /\ wIdx' = 0 /\ wSlept' = TRUE
  /\ UNCHANGED <<wProv, wLocal, wMasters, wList>>
  /\ UNCHANGED <<sshVars, partVars, provVars, invVars, launchVars, setupVars>>

\* the for loop is over and no instance is pending: wait_for_instances returns;
\* after the masters the slaves are waited for, after the slaves
\* "Waiting %d more seconds..." is reached
WaitReturn ==
  /\ wPc = "update"
  /\ wIdx = Cardinality(WaitList(wList))
  /\ ~StillPending(wLocal, WaitList(wList))
  /\ IF wList = "masters"
     THEN wPc' = "update" /\ wList' = "slaves" /\ wIdx' = 0
     ELSE wPc' = "settle" /\ UNCHANGED <<wList, wIdx>>
  /\ UNCHANGED <<wProv, wLocal, wMasters, wSlept>>
  /\ UNCHANGED <<sshVars, partVars, provVars, invVars, launchVars, setupVars>>

\* time.sleep(wait_secs); wait_for_cluster returns
WaitSettle ==
  /\ wPc = "settle"
  /\ wPc' = "done"
  /\ UNCHANGED <<wProv, wLocal, wMasters, wList, wIdx, wSlept>>
  /\ UNCHANGED <<sshVars, partVars, provVars, invVars, launchVars, setupVars>>

\* The provider moves one instance along its lifecycle.
ProviderStep ==
  /\ wPc \notin {"idle", "done"}
  /\ \E k \in DOMAIN wProv, mv \in ProviderMoves :
       /\ wProv[k] = mv[1]
       /\ wProv' = [wProv EXCEPT ![k] = mv[2]]
  /\ UNCHANGED <<wLocal, wMasters, wPc, wList, wIdx, wSlept>>
  /\ UNCHANGED <<sshVars, partVars, provVars, invVars, launchVars, setupVars>>

InitWait ==
  /\ \E n \in 0..MaxWaitNodes :
       /\ wProv \in [1..n -> WaitStates]
       /\ wLocal = [k \in 1..n |-> "pending"]
       /\ wMasters \in 0..n
  /\ wPc = "presleep" /\ wList = "masters" /\ wIdx = 0 /\ wSlept = FALSE
  /\ SshIdle /\ PartIdle /\ InvIdle /\ NoProvider /\ LaunchIdle /\ SetupIdle

WaitProgram ==
  WaitEnter \/ WaitUpdate \/ WaitPending \/ WaitSleep \/ WaitReturn \/ WaitSettle

NextWait == WaitProgram \/ ProviderStep

SpecWait == InitWait /\ [][NextWait]_vars

\* The control thread is never stopped: whatever step of wait_for_cluster is
\* enabled is eventually taken.  The provider is under no obligation.
SpecWaitFair == InitWait /\ [][NextWait]_vars /\ WF_vars(WaitProgram)

\* ================================================================== setup_cluster
MaxSetupMasters == 2   \* most master instances a resumed cluster is found with
MaxSetupSlaves == 2    \* most slave instances handed to setup_cluster

\* main() passes True for deploy_ssh_key
deploy_ssh_key == TRUE

\* Values of the --user option; setup_cluster overwrites it before its first call.
UserOptions == {"root", "ubuntu"}

SetupNodes == 1..(sMasters + sSlaves)
\* master = master_nodes[0]
MasterNode == 1
\* slave_nodes[i], i counted from 0
SlaveNode(i) == sMasters + i + 1

DigitStr == <<"0", "1", "2", "3", "4", "5", "6", "7", "8", "9">>
\* "hdpslave%i" % i
SlaveName(i) == "hdpslave" \o DigitStr[i + 1]

\* What one run of the ssh or scp child process can end in: exit status 0,
\* no connection (the remote command line was not started), or a non-zero
\* exit status of the remote command line after it was started.
SshOutcomes == {"ok", "refused", "failed"}
ScpOutcomes == {"ok", "failed"}

check_call_raises_never(o) == FALSE

\* subprocess.check_call raises CalledProcessError on a non-zero exit status
check_call_raises(o) == o /= "ok"

AdminUser_provisioning == "ec2-user"

\* opts.user = "root"
AdminUser == "root"

SetupSteps_master_service_first ==
  <<"creds", "handshake", "master_service", "bootstrap", "repoll", "hosts", "done">>

\* The statements of setup_cluster that issue calls, in the order of the text.
SetupSteps ==
  <<"creds", "handshake", "bootstrap", "repoll", "master_service", "hosts", "done">>

\* Where the given statement starts: generate_hosts_and_key writes its file first.
PcOf(step) == IF step = "hosts" THEN "hosts_build" ELSE step

\* Where the statement that follows the given one starts.
StepAfter(step) ==
  PcOf(SetupSteps[(CHOOSE i \in 1..(Len(SetupSteps) - 1) : SetupSteps[i] = step) + 1])

\* Entry of the call log.
Call(step, node, kind, status) ==
  [step |-> step, node |-> node, kind |-> kind, user |-> sUser, status |-> status]

\* One run of the child process of the remote call (step, node, kind), and what
\* ssh() / scp() do with its exit status.  An ssh() call that returns or raises
\* and an scp() call are entered in the log; tries = 0 at the start of every
\* ssh() call.  to is the position after the call: <<pc, node, cmd>>.
RemoteAttempt(step, node, kind, to) ==
  \E o \in (IF kind = "ssh" THEN SshOutcomes ELSE ScpOutcomes) :
    /\ bootRuns' = IF step = "bootstrap" /\ o /= "refused"
                   THEN [bootRuns EXCEPT ![node] = @ + 1]
                   ELSE bootRuns
    /\ pushed' = IF step = "hosts" /\ kind = "scp" /\ o = "ok"
                 THEN [pushed EXCEPT ![node] = hostsFile]
                 ELSE pushed
    /\ IF ~check_call_raises(o)
       THEN /\ sLog' = Append(sLog, Call(step, node, kind, IF o = "ok" THEN "ok" ELSE "failed"))
            /\ sPc' = to[1] /\ sNode' = to[2] /\ sCmd' = to[3] /\ sTries' = 0
       ELSE IF kind = "scp" \/ GivesUp(sTries)
       THEN /\ sLog' = Append(sLog, Call(step, node, kind, "failed"))
            /\ sPc' = "raised"
            /\ UNCHANGED <<sNode, sCmd, sTries>>
       ELSE /\ sTries' = sTries + 1
            /\ UNCHANGED <<sLog, sPc, sNode, sCmd>>

\* master = master_nodes[0]; opts.user = "ec2-user"
SetupStart ==
  /\ sPc = "start"
  /\ IF sMasters = 0
     THEN sPc' = "raised" /\ UNCHANGED <<sUser, sNode, sCmd>>      \* IndexError
     ELSE /\ sUser' = "ec2-user"
          /\ IF deploy_ssh_key
             THEN sPc' = "creds" /\ sNode' = MasterNode /\ sCmd' = 1
             ELSE sPc' = "handshake" /\ sNode' = 1 /\ sCmd' = 1
  /\ UNCHANGED <<sResumed, sMasters, sSlaves, sTries, assigned, bootRuns, sLog, hostsFile, pushed>>
  /\ UNCHANGED <<sshVars, partVars, provVars, invVars, launchVars, waitVars>>

\* ssh mkdir -p ~/.ssh; scp identity file; ssh chmod 600, all on the master
KeyDeploy ==
  /\ sPc = "creds"
  /\ RemoteAttempt("creds", MasterNode, IF sCmd = 2 THEN "scp" ELSE "ssh",
                   IF sCmd < 3 THEN <<"creds", MasterNode, sCmd + 1>>
                   ELSE <<StepAfter("creds"), 1, 1>>)
  /\ UNCHANGED <<sResumed, sMasters, sSlaves, sUser, assigned, hostsFile>>
  /\ UNCHANGED <<sshVars, partVars, provVars, invVars, launchVars, waitVars>>

\* for node in master_nodes + slave_nodes: ssh PermitRootLogin; ssh authorized_keys
Handshake ==
  /\ sPc = "handshake"
  /\ sNode \in SetupNodes
  /\ RemoteAttempt("handshake", sNode, "ssh",
                   IF sCmd < 2 THEN <<"handshake", sNode, 2>>
                   ELSE <<"handshake", sNode + 1, 1>>)
  /\ UNCHANGED <<sResumed, sMasters, sSlaves, sUser, assigned, hostsFile>>
  /\ UNCHANGED <<sshVars, partVars, provVars, invVars, launchVars, waitVars>>

\* the handshake loop is over: opts.user = "root"
SetRoot ==
  /\ sPc = "handshake"
  /\ sNode \notin SetupNodes
  /\ sUser' = AdminUser
  /\ sPc' = StepAfter("handshake") /\ sNode' = 0 /\ sCmd' = 1
  /\ UNCHANGED <<sResumed, sMasters, sSlaves, sTries, assigned, bootRuns, sLog, hostsFile, pushed>>
  /\ UNCHANGED <<sshVars, partVars, provVars, invVars, launchVars, waitVars>>

\* configure_node(master, opts, "hdpmaster1") when sNode = 0, then
\* configure_node(slave_nodes[i], opts, "hdpslave%i" % i) for sNode = i + 1:
\* node.assigned_name = name (sCmd = 1), then the ssh() call (sCmd = 2)
ConfigureNode ==
  /\ sPc = "bootstrap"
  /\ sNode <= sSlaves
  /\ LET node == IF sNode = 0 THEN MasterNode ELSE SlaveNode(sNode - 1)
         name == IF sNode = 0 THEN "hdpmaster1" ELSE SlaveName(sNode - 1)
     IN  IF sCmd = 1
         THEN /\ assigned' = [assigned EXCEPT ![node] = name]
              /\ sCmd' = 2
              /\ UNCHANGED <<sPc, sNode, sTries, bootRuns, sLog, pushed>>
         ELSE /\ RemoteAttempt("bootstrap", node, "ssh", <<"bootstrap", sNode + 1, 1>>)
              /\ UNCHANGED assigned
  /\ UNCHANGED <<sResumed, sMasters, sSlaves, sUser, hostsFile>>
  /\ UNCHANGED <<sshVars, partVars, provVars, invVars, launchVars, waitVars>>

\* the slave loop is over
ConfigureDone ==
  /\ sPc = "bootstrap"
  /\ sNode > sSlaves
  /\ sPc' = StepAfter("bootstrap") /\ sNode' = 0
  /\ UNCHANGED <<sResumed, sMasters, sSlaves, sCmd, sTries, sUser, assigned, bootRuns,
                 sLog, hostsFile, pushed>>
  /\ UNCHANGED <<sshVars, partVars, provVars, invVars, launchVars, waitVars>>

\* wait_for_cluster(conn, 90, master_nodes, slave_nodes) returns.  Its steps are
\* those of SpecWait; here the call is one step, taken if and when it returns.
SetupWait ==
  /\ sPc = "repoll"
  /\ sLog' = Append(sLog, Call("repoll", 0, "wait", "ok"))
  /\ sPc' = StepAfter("repoll") /\ sNode' = MasterNode /\ sCmd' = 1
  /\ UNCHANGED <<sResumed, sMasters, sSlaves, sTries, sUser, assigned, bootRuns,
                 hostsFile, pushed>>
  /\ UNCHANGED <<sshVars, partVars, provVars, invVars, launchVars, waitVars>>

\* setup_master(master, opts): one ssh() call
SetupMaster ==
  /\ sPc = "master_service"
  /\ RemoteAttempt("master_service", MasterNode, "ssh",
                   <<StepAfter("master_service"), 0, 1>>)
  /\ UNCHANGED <<sResumed, sMasters, sSlaves, sUser, assigned, hostsFile>>
  /\ UNCHANGED <<sshVars, partVars, provVars, invVars, launchVars, waitVars>>

\* generate_hosts_and_key: one line per node of master_nodes + slave_nodes,
\* "%s %s.hdp.hadoop %s" % (node.ip_address, node.assigned_name, node.assigned_name);
\* reading assigned_name of a node that was never given one is an AttributeError
HostsBuild ==
  /\ sPc = "hosts_build"
  /\ IF \E k \in SetupNodes : assigned[k] = ""
     THEN sPc' = "raised" /\ UNCHANGED <<sNode, sCmd, hostsFile>>
     ELSE /\ hostsFile' = [k \in SetupNodes |-> <<k, assigned[k]>>]
          /\ sPc' = "hosts" /\ sNode' = 1 /\ sCmd' = 1
  /\ UNCHANGED <<sResumed, sMasters, sSlaves, sTries, sUser, assigned, bootRuns, sLog, pushed>>
  /\ UNCHANGED <<sshVars, partVars, provVars, invVars, launchVars, waitVars>>

\* for node in nodes: scp hosts file; ssh hostname; ssh ntpd restart
HostsPush ==
  /\ sPc = "hosts"
  /\ sNode \in SetupNodes
  /\ RemoteAttempt("hosts", sNode, IF sCmd = 1 THEN "scp" ELSE "ssh",
                   IF sCmd < 3 THEN <<"hosts", sNode, sCmd + 1>>
                   ELSE <<"hosts", sNode + 1, 1>>)
  /\ UNCHANGED <<sResumed, sMasters, sSlaves, sUser, assigned, hostsFile>>
  /\ UNCHANGED <<sshVars, partVars, provVars, invVars, launchVars, waitVars>>

\* print "Done!"
SetupDone ==
  /\ sPc = "hosts"
  /\ sNode \notin SetupNodes
  /\ sPc' = StepAfter("hosts")
  /\ UNCHANGED <<sResumed, sMasters, sSlaves, sNode, sCmd, sTries, sUser, assigned, bootRuns,
                 sLog, hostsFile, pushed>>
  /\ UNCHANGED <<sshVars, partVars, provVars, invVars, launchVars, waitVars>>

\* The lists are what launch_cluster returned: one new master and the new
\* slaves, or whatever get_existing_cluster found under --resume.
InitSetup ==
  /\ sResumed \in BOOLEAN
  /\ sMasters \in (IF sResumed THEN 0..MaxSetupMasters ELSE {1})
  /\ sSlaves \in 0..MaxSetupSlaves
  /\ sPc = "start" /\ sNode = 0 /\ sCmd = 0 /\ sTries = 0
  /\ sUser \in UserOptions
  /\ assigned = [k \in SetupNodes |-> ""]
  /\ bootRuns = [k \in SetupNodes |-> 0]
  /\ sLog = <<>> /\ hostsFile = <<>>
  /\ pushed = [k \in SetupNodes |-> <<>>]
  /\ SshIdle /\ PartIdle /\ InvIdle /\ NoProvider /\ LaunchIdle /\ WaitIdle

NextSetup ==
  \/ SetupStart \/ KeyDeploy \/ Handshake \/ SetRoot \/ ConfigureNode \/ ConfigureDone
  \/ SetupWait \/ SetupMaster \/ HostsBuild \/ HostsPush \/ SetupDone

SpecSetup == InitSetup /\ [][NextSetup]_vars

\* ================================================================== claims

\* C1: RemoteExecutor.run (ssh) has a retry budget of 2: against a transport
\* that fails its first 2 attempts and succeeds on the 3rd it returns success
\* after exactly 2 retries, and against a transport that fails every attempt it
\* raises after exactly 3 total attempts (never a 4th).
SshAlwaysFails == \A k \in DOMAIN sshPlan : ~sshPlan[k]
SshFailsTwiceThenOk == ~sshPlan[1] /\ ~sshPlan[2] /\ sshPlan[3]

C1_RetryBudgetTwo ==
  /\ (SshFailsTwiceThenOk /\ sshPc = "returned" => attempts = 3 /\ tries = 2)
  /\ (SshAlwaysFails => attempts <= 3)
  /\ (SshAlwaysFails /\ sshPc = "raised" => attempts = 3)

\* C2: for every total >= 0 and n >= 1 the shares get_partition(total, n, i),
\* i = 0..n-1, sum to total, the largest and the smallest differ by at most 1,
\* and exactly the first (total mod n) zones receive base + 1 while the others
\* receive base = total div n.
C2_PartitionExact ==
  (pN >= 1 /\ pI = pN) =>
     /\ Len(pShares) = pN
     /\ SumSeq(pShares) = pTotal
     /\ SeqMax(pShares) - SeqMin(pShares) <= 1
     /\ \A k \in 1..pN :
          pShares[k] = (pTotal \div pN) + (IF k <= pTotal % pN THEN 1 ELSE 0)
     /\ Cardinality({k \in 1..pN : pShares[k] = (pTotal \div pN) + 1}) = pTotal % pN

C2_Witness ==
  /\ pI = pN /\ pN = 3 /\ pTotal = 7
  /\ pShares = <<3, 2, 2>>

\* The active set as the data model states it.
ActiveSet == {"pending", "running", "stopping", "stopped"}

InvDone == invPc \in {"returned", "exit"}
SeqRange(q) == {q[k] : k \in DOMAIN q}

\* C6: ClusterInventory.find returns only active nodes: every node of the
\* returned master list and worker list has a lifecycle state in
\* {pending, running, stopping, stopped}, whatever the provider state.
C6_ReturnsOnlyActive ==
  invPc = "returned" =>
    \A node \in SeqRange(invFound[1]) \cup SeqRange(invFound[2]) :
      NodeState(reservations, node) \in ActiveSet

\* C7: find never classifies a node as master or worker when its reservation's
\* group membership is anything other than exactly the single group
\* <cluster>-master (for a master) or exactly the single group <cluster>-slaves
\* (for a worker).
C7_OnlySingleGroupClassified ==
  InvDone =>
    /\ \A node \in SeqRange(invFound[1]) :
         reservations[node[1]].groups = <<"c-master">>
    /\ \A node \in SeqRange(invFound[2]) :
         reservations[node[1]].groups = <<"c-slaves">>

C7_Witness ==
  /\ invPc = "returned"
  /\ Len(reservations) = 2
  /\ reservations[1].groups = <<"c-master", "default">>
  /\ reservations[1].instances = <<"running">>
  /\ reservations[2].groups = <<"c-master">>
  /\ invFound = << << <<2, 1>> >>, <<>> >>

\* C9: find with requireBoth = true fails (exits) whenever the master list or
\* the worker list is empty; with requireBoth = false it never fails and
\* returns what was found, two empty lists or one empty list included.
C9_RequireBoth ==
  InvDone =>
    /\ (invDie /\ (invFound[1] = <<>> \/ invFound[2] = <<>>) => invPc = "exit")
    /\ (invDie /\ invFound[1] /= <<>> /\ invFound[2] /= <<>> => invPc = "returned")
    /\ (~invDie => invPc = "returned")

C9_Witness ==
  /\ invPc = "exit" /\ invDie
  /\ invFound[1] /= <<>> /\ invFound[2] = <<>>

\* ------------------------------------------------------------------ launch claims
Started == pc /= "idle"
FreshRun == Started /\ ~start.opts.resume
ResumeRun == Started /\ start.opts.resume
PastFind == Started /\ pc \notin {"master_group", "slave_group", "master_rules",
                                  "slave_rules", "find", "authorize_error"}

\* The reservations that make up the cluster of the given name, and the
\* lifecycle states of their instances.
ClusterReservations(rs) ==
  {r \in DOMAIN rs : rs[r].groups \in {<<"c-master">>, <<"c-slaves">>}}
ClusterStates(rs) ==
  UNION {SeqRange(rs[r].instances) : r \in ClusterReservations(rs)}
HadActiveCluster(rs) ==
  \E r \in ClusterReservations(rs) : SeqRange(rs[r].instances) \cap ActiveSet /= {}

\* C3: launch without the resume flag, on a cluster name for which the provider
\* holds any active master or worker, fails with the conflict error and issues
\* zero instance-create calls (neither worker batches nor the master).
C3_ConflictCreatesNothing ==
  (FreshRun /\ HadActiveCluster(start.reservations)) =>
     /\ createCalls = <<>>
     /\ reservations = start.reservations
     /\ (LaunchDone => pc = "conflict")

C3_Witness ==
  /\ FreshRun /\ pc = "conflict"
  /\ HadActiveCluster(start.reservations)
  /\ start.reservations = <<[groups |-> <<"c-slaves">>, instances |-> <<"stopped">>]>>
  /\ createCalls = <<>>

\* C4 (as stated): launch with the resume flag creates no provider resource at
\* all, whatever the provider state: no instance, no group, no rule; it returns
\* the inventory found with requireBoth = false.
C4_ResumeCreatesNothing ==
  ResumeRun =>
     /\ createCalls = <<>>
     /\ groupCalls = <<>>
     /\ reservations = start.reservations
     /\ sgroups = start.sgroups
     /\ (LaunchDone => pc = "returned"
                       /\ result = FoundNodes(start.reservations, cluster_name))

HadRules(sg, name) == \E k \in DOMAIN sg : sg[k].name = name /\ sg[k].rules /= <<>>
Existed(sg, name) == \E k \in DOMAIN sg : sg[k].name = name
IsPrefix(p, q) == Len(p) <= Len(q) /\ SubSeq(q, 1, Len(p)) = p

\* C4 (amended): launch with the resume flag creates no instance and returns
\* the inventory found with requireBoth = false; the only provider resources
\* it creates are the cluster's own two groups when they are missing, and
\* their rules when a group holds none.
C4_ResumeCreatesNoInstance ==
  ResumeRun =>
     /\ createCalls = <<>>
     /\ reservations = start.reservations
     /\ (LaunchDone => pc = "returned"
                       /\ result = FoundNodes(start.reservations, cluster_name))
     /\ \A i \in DOMAIN groupCalls :
          /\ groupCalls[i].group \in {"c-master", "c-slaves"}
          /\ groupCalls[i].call = "create" => ~Existed(start.sgroups, groupCalls[i].group)
          /\ groupCalls[i].call = "authorize" => ~HadRules(start.sgroups, groupCalls[i].group)
     /\ \A k \in DOMAIN start.sgroups :
          /\ k \in DOMAIN sgroups
          /\ sgroups[k].name = start.sgroups[k].name
          /\ IsPrefix(start.sgroups[k].rules, sgroups[k].rules)
          /\ (start.sgroups[k].rules /= <<>> => sgroups[k].rules = start.sgroups[k].rules)

C4_Witness ==
  /\ ResumeRun /\ pc = "returned"
  /\ start.sgroups = <<DefaultGroup>>
  /\ Len(groupCalls) = 8
  /\ Len(sgroups) = 3
  /\ result = <<<<>>, <<>>>>

\* C5: ensureGroups is idempotent: once it has completed for the cluster name,
\* a later invocation creates no group and issues no authorize call; the
\* provider never holds two groups of the same name and never receives a rule
\* the group already holds.
C5_EnsureGroupsIdempotent ==
  /\ (Started /\ start.ensured => groupCalls = <<>> /\ sgroups = start.sgroups)
  /\ \A k1, k2 \in DOMAIN sgroups : k1 /= k2 => sgroups[k1].name /= sgroups[k2].name
  /\ \A i \in DOMAIN groupCalls : ~groupCalls[i].dup
  /\ \A k \in DOMAIN sgroups :
       Cardinality(SeqRange(sgroups[k].rules)) = Len(sgroups[k].rules)

C5_Witness ==
  /\ runs = 2 /\ start.ensured /\ pc = "find"
  /\ groupCalls = <<>>
  /\ Len(sgroups) = 3
  /\ sgroups[2].rules = FullRules /\ sgroups[3].rules = FullRules

\* C8: a node is active iff its state is pending, running, stopping or
\* stopped: a cluster whose only instances are stopped is found by the
\* inventory and blocks a fresh launch; one whose instances are all terminated
\* is not found and does not block a fresh launch.
C8_StoppedActiveTerminatedNot ==
  /\ \A st \in InstanceStates : is_active(st) <=> st \in ActiveSet
  /\ PastFind =>
       /\ ClusterStates(start.reservations) = {"stopped"} =>
            /\ active_nodes /= <<<<>>, <<>>>>
            /\ FreshRun => pc = "conflict" /\ createCalls = <<>>
       /\ ClusterStates(start.reservations) = {"terminated"} =>
            /\ active_nodes = <<<<>>, <<>>>>
            /\ pc /= "conflict"

C8_Witness ==
  /\ FreshRun /\ pc = "conflict"
  /\ ClusterStates(start.reservations) = {"stopped"}
  /\ Len(active_nodes[1]) = 1 /\ Len(active_nodes[2]) = 2

C8_WitnessTerminated ==
  /\ FreshRun /\ pc = "returned"
  /\ ClusterStates(start.reservations) = {"terminated"}

\* C10: in a fresh launch each zone with a non-zero share receives exactly one
\* batch create call requesting exactly its share (min = max = share), zones
\* with a zero share receive no call, and the workers created over all zones
\* total exactly the requested count (3 workers over [a, b] gives a:2, b:1).
IsWorkerCall(c) == c.group = "c-slaves"
WorkerCalls == SelectSeq(createCalls, IsWorkerCall)
ExpectedZones == IF start.opts.zone = "all" THEN AllZones ELSE <<start.opts.zone>>
ExpectedShare(k) ==
  (start.opts.slaves \div Len(ExpectedZones)) +
    (IF k <= start.opts.slaves % Len(ExpectedZones) THEN 1 ELSE 0)
WorkersLaunched ==
  \/ pc = "slaves" /\ zi = Len(zones)
  \/ pc = "master_run_error"
  \/ pc = "returned" /\ ~start.opts.resume
NewWorkerInstances ==
  {<<r, j>> \in (DOMAIN reservations) \X (1..(MaxSlaves + 2)) :
     /\ r > Len(start.reservations)
     /\ reservations[r].groups = <<"c-slaves">>
     /\ j \in DOMAIN reservations[r].instances}

C10_OneBatchPerZone ==
  FreshRun =>
     /\ \A i \in DOMAIN WorkerCalls :
          /\ WorkerCalls[i].min_count = WorkerCalls[i].max_count
          /\ WorkerCalls[i].min_count > 0
          /\ \E k \in DOMAIN ExpectedZones :
               /\ ExpectedZones[k] = WorkerCalls[i].placement
               /\ ExpectedShare(k) = WorkerCalls[i].min_count
     /\ \A i, j \in DOMAIN WorkerCalls :
          i /= j => WorkerCalls[i].placement /= WorkerCalls[j].placement
     /\ WorkersLaunched =>
          /\ \A k \in DOMAIN ExpectedZones :
               (ExpectedShare(k) > 0) <=>
                 (\E i \in DOMAIN WorkerCalls : WorkerCalls[i].placement = ExpectedZones[k])
          /\ Len(slave_nodes) = start.opts.slaves
          /\ SeqRange(slave_nodes) = NewWorkerInstances
          /\ Cardinality(NewWorkerInstances) = start.opts.slaves
          /\ (start.opts.slaves = 3 /\ ExpectedZones = <<"a", "b">> =>
                /\ Len(WorkerCalls) = 2
                /\ WorkerCalls[1].placement = "a" /\ WorkerCalls[1].min_count = 2
                /\ WorkerCalls[2].placement = "b" /\ WorkerCalls[2].min_count = 1)

C10_Witness ==
  /\ FreshRun /\ pc = "returned"
  /\ start.opts.slaves = 3 /\ start.opts.zone = "all" /\ ExpectedZones = <<"a", "b">>
  /\ Len(WorkerCalls) = 2
  /\ WorkerCalls[1].placement = "a" /\ WorkerCalls[1].min_count = 2
  /\ WorkerCalls[2].placement = "b" /\ WorkerCalls[2].max_count = 1
  /\ Len(slave_nodes) = 3

C10_WitnessZeroShare ==
  /\ FreshRun /\ pc = "returned"
  /\ start.opts.slaves = 1 /\ start.opts.zone = "all" /\ Len(ExpectedZones) >= 2
  /\ Len(WorkerCalls) = 1

\* C11: every successful fresh launch issues exactly one master create call
\* requesting exactly one instance, after all worker batches, and returns a
\* master list with exactly one node; the master instance type equals the
\* worker instance type when no master type is configured.
IsMasterCall(c) == c.group = "c-master"
MasterCalls == SelectSeq(createCalls, IsMasterCall)

C11_OneMasterLast ==
  FreshRun =>
     /\ Len(MasterCalls) <= 1
     /\ \A i \in DOMAIN createCalls :
          IsMasterCall(createCalls[i]) =>
             /\ i = Len(createCalls)
             /\ createCalls[i].min_count = 1 /\ createCalls[i].max_count = 1
             /\ Len(WorkerCalls) = i - 1
             /\ \A k \in DOMAIN ExpectedZones :
                  ExpectedShare(k) > 0 =>
                    \E w \in 1..(i - 1) : createCalls[w].placement = ExpectedZones[k]
     /\ pc = "returned" =>
          /\ Len(MasterCalls) = 1
          /\ Len(result[1]) = 1
          /\ result[1][1][1] = Len(reservations)
          /\ reservations[result[1][1][1]].groups = <<"c-master">>
          /\ Len(reservations[result[1][1][1]].instances) = 1
          /\ result[2] = slave_nodes
          /\ (start.opts.master_instance_type = "" =>
                /\ MasterCalls[1].instance_type = start.opts.instance_type
                /\ \A w \in DOMAIN WorkerCalls :
                     WorkerCalls[w].instance_type = MasterCalls[1].instance_type)

C11_Witness ==
  /\ FreshRun /\ pc = "returned"
  /\ start.opts.master_instance_type = "" /\ start.opts.slaves = 2
  /\ Len(createCalls) = 3
  /\ createCalls[3].group = "c-master" /\ createCalls[3].instance_type = "m1.large"
  /\ Len(result[1]) = 1 /\ Len(result[2]) = 2

\* C16: there is no rollback: no run terminates or deletes anything, so after
\* a launch that died once some worker batch was created (the master create
\* call fails, say) those workers stay active and every later launch without
\* the resume flag ends at the conflict error.
C16_NoRollback ==
  /\ \A node \in orphans :
       /\ node[1] \in DOMAIN reservations
       /\ reservations[node[1]].groups = <<"c-slaves">>
       /\ node[2] \in DOMAIN reservations[node[1]].instances
       /\ NodeState(reservations, node) \in ActiveSet
  /\ Started =>
       /\ IsPrefix(start.reservations, reservations)
       /\ \A k \in DOMAIN start.sgroups :
            k \in DOMAIN sgroups /\ sgroups[k].name = start.sgroups[k].name
  /\ (pc \in {"slave_run_error", "master_run_error"} =>
        SeqRange(slave_nodes) \subseteq orphans)
  /\ (FreshRun /\ start.orphans /= {} =>
        /\ createCalls = <<>>
        /\ reservations = start.reservations
        /\ (LaunchDone => pc = "conflict"))

C16_Witness ==
  /\ FreshRun /\ pc = "conflict" /\ runs = 2
  /\ start.orphans /= {}
  /\ start.reservations = <<[groups |-> <<"c-slaves">>, instances |-> <<"pending", "pending">>]>>
  /\ createCalls = <<>>

\* C17: launch's side effects are create-only: it never mutates or deletes a
\* resource that existed before the call; in particular it never adds rules to
\* a group that already existed when launch was called.
C17_CreateOnly ==
  Started =>
     /\ IsPrefix(start.reservations, reservations)
     /\ IsPrefix(start.sgroups, sgroups)

\* ---------------------------------------------------------------- wait claims
\* The step is a return of wait_for_instances.
WaitReturns == wPc = "update" /\ (wList' /= wList \/ wPc' = "settle")
\* The step starts a further round of the loop on the same list.
WaitNextRound ==
  /\ wPc' = "update" /\ wIdx' = 0 /\ wList' = wList
  /\ wPc /= "presleep" /\ ~(wPc = "update" /\ wIdx = 0)
NonePendingSeen == \A k \in WaitList(wList) : wLocal[k] /= "pending"
AllDescribed == wIdx = Cardinality(WaitList(wList))

\* C12: wait_for_instances returns only from a round in which every node of the
\* list was described and none of them was seen pending; a round that saw a
\* pending node is followed by the sleep, a further round is entered only from
\* the sleep, and it describes the list again from its first node.
C12_ReturnsWhenNonePending ==
  [][ /\ WaitReturns => (AllDescribed /\ NonePendingSeen)
      /\ WaitNextRound => wPc = "sleep"
      /\ (wPc = "update" /\ AllDescribed /\ ~NonePendingSeen /\ wPc' /= wPc) => wPc' = "sleep"
      /\ (wPc = "sleep" /\ wPc' /= wPc) => (wPc' = "update" /\ wIdx' = 0 /\ wList' = wList)
      /\ (wPc = "update" /\ wIdx' /= wIdx /\ wIdx' /= 0) =>
           (wIdx' = wIdx + 1 /\ wLocal'[WaitNode(wList, wIdx')] = wProv[WaitNode(wList, wIdx')])
    ]_vars

\* Both lists have returned after at least one sleep, with a master and a slave.
C12_Witness ==
  /\ wPc = "settle" /\ wSlept
  /\ wMasters = 1 /\ Len(wProv) = 2
  /\ \A k \in DOMAIN wLocal : wLocal[k] /= "pending"

\* C13: there is no timeout.  If some node stays pending for ever,
\* wait_for_cluster never gets past its polling loops; if from some point on no
\* node is pending any more, the loops end and the settle sleep is passed.
C13_NoTimeout ==
  /\ \A k \in 1..MaxWaitNodes :
       [](k \in DOMAIN wProv /\ wProv[k] = "pending") => [](wPc \notin {"settle", "done"})
  /\ (<>[](\A k \in DOMAIN wProv : wProv[k] /= "pending")) => <>(wPc = "done")

\* wait_for_cluster has returned after polling more than once.
C13_Witness == wPc = "done" /\ wSlept /\ Len(wProv) >= 1

\* A node is still pending after the loop has been through the sleep.
C13_WitnessStuck ==
  /\ wPc = "sleep" /\ wSlept
  /\ \E k \in DOMAIN wProv : wProv[k] = "pending" /\ wLocal[k] = "pending"

\* ---------------------------------------------------------------- setup claims
SetupCount == sMasters + sSlaves
Proj(e) == <<e.step, e.node, e.kind>>
ExpectedCreds == << <<"creds", 1, "ssh">>, <<"creds", 1, "scp">>, <<"creds", 1, "ssh">> >>
ExpectedHandshake == [i \in 1..(2 * SetupCount) |-> <<"handshake", (i + 1) \div 2, "ssh">>]
ExpectedBootstrap ==
  [i \in 1..(1 + sSlaves) |-> <<"bootstrap", IF i = 1 THEN 1 ELSE sMasters + i - 1, "ssh">>]
ExpectedHosts ==
  [i \in 1..(3 * SetupCount) |->
     <<"hosts", (i + 2) \div 3, IF i % 3 = 1 THEN "scp" ELSE "ssh">>]
ExpectedOrder ==
  ExpectedCreds \o ExpectedHandshake \o ExpectedBootstrap
    \o << <<"repoll", 0, "wait">>, <<"master_service", 1, "ssh">> >> \o ExpectedHosts
LogOrder == [i \in 1..Len(sLog) |-> Proj(sLog[i])]

\* C14: the calls setup_cluster has finished are, at every moment, an initial
\* piece of one fixed list: the three key calls on the master, the two handshake
\* calls node by node, the bootstrap of the master and then of the slaves by
\* index, the re-poll, the master service bootstrap, and the three hosts calls
\* node by node; a run that prints "Done!" has finished the whole list.
C14_FixedOrder ==
  /\ IsPrefix(LogOrder, ExpectedOrder)
  /\ sPc = "done" => LogOrder = ExpectedOrder

\* A fresh cluster with two slaves has been configured to the end.
C14_Witness ==
  /\ sPc = "done" /\ ~sResumed /\ sSlaves = 2
  /\ Len(sLog) = 23
  /\ sLog[10].step = "bootstrap" /\ sLog[13].step = "repoll" /\ sLog[14].step = "master_service"

\* C15: a call that failed for good is the last call of the run: the run is
\* over (the exception left setup_cluster), and nothing changes afterwards.
C15_FailureEndsRun ==
  /\ [](\A i \in 1..Len(sLog) :
          sLog[i].status = "failed" => (i = Len(sLog) /\ sPc = "raised"))
  /\ [][sPc = "raised" => UNCHANGED setupVars]_vars

\* An ssh() call of the handshake gave up after using up its retries, with
\* nodes still to be configured.
C15_Witness ==
  /\ sPc = "raised" /\ sTries = 3
  /\ Len(sLog) = 4
  /\ sLog[4].step = "handshake" /\ sLog[4].status = "failed"
  /\ sSlaves >= 1 /\ \A k \in SetupNodes : bootRuns[k] = 0

\* C18: in a run that reached "Done!" the bootstrap command line was started
\* exactly once on the master and on every slave.
C18_BootstrapOnce ==
  sPc = "done" => \A k \in SetupNodes : bootRuns[k] = 1

HandshakeComplete ==
  \A k \in SetupNodes :
    Cardinality({i \in 1..Len(sLog) :
                   sLog[i].step = "handshake" /\ sLog[i].node = k /\ sLog[i].status = "ok"}) = 2

\* C19: every call of the key and handshake steps is made as ec2-user and every
\* remote call of the later steps as root; once set at the start, opts.user
\* changes only from ec2-user to root, only after both handshake calls have
\* succeeded on every node, and a run that ends has made the change.
C19_IdentitySwitchOnce ==
  /\ [](\A i \in 1..Len(sLog) :
          /\ sLog[i].step \in {"creds", "handshake"} => sLog[i].user = "ec2-user"
          /\ sLog[i].step \in {"bootstrap", "master_service", "hosts"} => sLog[i].user = "root")
  /\ []((sPc /= "start" /\ sMasters > 0) =>
          /\ sUser \in {"ec2-user", "root"}
          /\ sUser = "root" => HandshakeComplete)
  /\ [](sPc = "done" => sUser = "root")
  /\ [][(sPc /= "start" /\ sUser' /= sUser) =>
          (sUser = "ec2-user" /\ sUser' = "root" /\ HandshakeComplete)]_vars

\* A resumed cluster has been configured to the end as ec2-user, then as root.
C19_Witness ==
  /\ sPc = "done" /\ sResumed /\ sSlaves = 1
  /\ sUser = "root"
  /\ sLog[1].user = "ec2-user" /\ sLog[5].user = "ec2-user"
  /\ sLog[8].step = "bootstrap" /\ sLog[8].user = "root"

\* C20: when the hosts file is about to be written every node of both lists has
\* a name and no two nodes share one; the file written has one line per node,
\* with the node's name; a run that ends has copied that file to every node.
C20_HostsComplete ==
  /\ sPc = "hosts_build" =>
       /\ \A k \in SetupNodes : assigned[k] /= ""
       /\ \A j, k \in SetupNodes : j /= k => assigned[j] /= assigned[k]
  /\ sPc \in {"hosts", "done"} =>
       /\ Len(hostsFile) = SetupCount
       /\ \A k \in SetupNodes : hostsFile[k] = <<k, assigned[k]>>
  /\ sPc = "done" => \A k \in SetupNodes : pushed[k] = hostsFile

\* ---------------------------------------------------------------- group rules after set-up
\* The rules the provider holds for the group of the given name.
RulesOf(sg, name) ==
  UNION { SeqRange(sg[k].rules) : k \in {j \in DOMAIN sg : sg[j].name = name} }

\* C21: when the group set-up of launch_cluster has completed (the run is at
\* the search for an existing cluster), whatever groups and rules the provider
\* held at the start, the master group and the slave group each hold the three
\* rules: traffic from the master group, traffic from the slave group, and tcp
\* 0-65535 from 0.0.0.0/0.
C21_GroupsHoldFullRules ==
  (Started /\ pc = "find") =>
     /\ RulesOf(sgroups, "c-master") = SeqRange(FullRules)
     /\ RulesOf(sgroups, "c-slaves") = SeqRange(FullRules)

====
